---- MODULE Spec2Model ----
(***************************************************************************)
(* The model layer of the UmojaMath tutoring business simulator            *)
(* (src/app.py): PricingModel, AdvertisingModel, ProfitModel and           *)
(* SeasonalityModel, and the queries a caller makes on one instance.       *)
(*                                                                         *)
(* Numbers.  A Python int is an integer.  A Python float is modelled at    *)
(* reduced precision, as a decimal fixed-point number: an integer count of *)
(* units of 1/Scale.  As in IEEE arithmetic, every operation returns the   *)
(* exact result rounded to the nearest representable number: products and  *)
(* quotients of floats (FMul, FDiv), math.sqrt, math.sin, math.cos,        *)
(* math.exp, math.log, and the constant math.pi itself.  int * float and   *)
(* float + float are exact in this format.                                 *)
(* A Python exception is a result whose tag is the exception's name.       *)
(***************************************************************************)
EXTENDS Integers, Sequences, FiniteSets, TLC

VARIABLES
    model,      \* the instance under use: its class and its parameter fields
    built,      \* the parameter fields as given to __init__
    last,       \* the latest query: [op, arg, result]
    first,      \* the first query made on the instance: [op, arg, result]
    between     \* whether a different query ran after the first one

vars == <<model, built, last, first, between>>

----------------------------------------------------------------------------
(* Bounds of the model.                                                    *)

MaxHours == 12          \* hours passed to PricingModel.calculate_cost: 1..MaxHours
MaxFixed == 2           \* fixed_costs: 0..MaxFixed
MaxRev == 4             \* avg_revenue_per_student: 0..MaxRev
MaxSf == 3              \* scaling_factor: 0/2, 1/2, ..., MaxSf/2
MaxStudents == 1        \* students passed to the ProfitModel queries: 0..MaxStudents
MaxSample == 10         \* student counts the optimum is compared against: 0..MaxSample
MaxPhase == 1           \* phase1, phase2: -MaxPhase..MaxPhase
MaxMonth == 12          \* month passed to calculate_enrollment: 1..MaxMonth
MaxDays == 16           \* days passed to calculate_reach: 0..MaxDays

----------------------------------------------------------------------------
(* Fixed-point floats.                                                     *)

Scale == 10 ^ 3         \* a float is a multiple of 1/Scale
Fine == 10 ^ 7          \* the tables below hold values in units of 1/Fine

Abs(x) == IF x < 0 THEN -x ELSE x

\* a / b rounded to the nearest integer (half up), b > 0
RoundDiv(a, b) == (2 * a + b) \div (2 * b)

\* float(i) of an int i
FromInt(i) == i * Scale

\* x * y of two floats
FMul(x, y) == RoundDiv(x * y, Scale)

\* x / y of two floats, y /= 0
FDiv(x, y) == IF y < 0 THEN RoundDiv(-x * Scale, -y) ELSE RoundDiv(x * Scale, y)

\* floor of the square root of n >= 0, by bisection on lo..hi
RECURSIVE ISqrtIn(_, _, _)
ISqrtIn(n, lo, hi) ==
    IF lo >= hi THEN lo
    ELSE LET mid == (lo + hi + 1) \div 2
         IN  IF mid * mid <= n THEN ISqrtIn(n, mid, hi) ELSE ISqrtIn(n, lo, mid - 1)

ISqrt(n) == ISqrtIn(n, 0, IF n < 46340 THEN n ELSE 46340)

\* math.sqrt(x), x >= 0: the float nearest to the root
Sqrt(x) ==
    LET r == ISqrt(x * Scale)
    IN  IF (2 * r + 1) * (2 * r + 1) < 4 * x * Scale THEN r + 1 ELSE r

\* math.pi: pi rounded to a float
PI == 3142

\* pi/6 in units of 1/Fine, used by Sin and Cos to reduce their argument
PiSixthFine == 5235988

\* sin and cos of n * pi/6, in units of 1/Fine
SinTab(n) ==
    CASE n % 12 \in {0, 6} -> 0
      [] n % 12 \in {1, 5} -> 5000000
      [] n % 12 \in {2, 4} -> 8660254
      [] n % 12 = 3 -> 10000000
      [] n % 12 \in {7, 11} -> -5000000
      [] n % 12 \in {8, 10} -> -8660254
      [] n % 12 = 9 -> -10000000

CosTab(n) == SinTab(n + 3)

\* The reduced argument of the float x: x = n * pi/6 + r/Fine, n the nearest
\* integer.
ReduceN(x) == RoundDiv(x * (Fine \div Scale), PiSixthFine)
ReduceR(x) == x * (Fine \div Scale) - ReduceN(x) * PiSixthFine

\* math.sin(x) and math.cos(x): the function value at x, rounded to a float.
\* sin(n*pi/6 + r) = sin(n*pi/6)(1 - r^2/2) + cos(n*pi/6) r, for the small r
\* that integer months and phases give (|r| < 1/200).
Sin(x) ==
    LET n == ReduceN(x)
        r == ReduceR(x)
        r2 == (r * r) \div Fine
        v == SinTab(n) + RoundDiv(RoundDiv(CosTab(n), 10000) * r, 1000)
                       - RoundDiv(RoundDiv(SinTab(n), 10000) * r2, 2000)
    IN  RoundDiv(v, Fine \div Scale)

Cos(x) ==
    LET n == ReduceN(x)
        r == ReduceR(x)
        r2 == (r * r) \div Fine
        v == CosTab(n) - RoundDiv(RoundDiv(SinTab(n), 10000) * r, 1000)
                       - RoundDiv(RoundDiv(CosTab(n), 10000) * r2, 2000)
    IN  RoundDiv(v, Fine \div Scale)

\* e^-i and e^-(j/10) in units of 1/Fine; e^-i underflows to 0 from i = 11
ExpTabUnits(i) ==
    CASE i = 0 -> 10000000 [] i = 1 -> 3678794 [] i = 2 -> 1353353
      [] i = 3 -> 497871 [] i = 4 -> 183156 [] i = 5 -> 67379
      [] i = 6 -> 24788 [] i = 7 -> 9119 [] i = 8 -> 3355
      [] i = 9 -> 1234 [] i = 10 -> 454 [] OTHER -> 0

ExpTabTenths(j) ==
    CASE j = 0 -> 10000000 [] j = 1 -> 9048374 [] j = 2 -> 8187308
      [] j = 3 -> 7408182 [] j = 4 -> 6703200 [] j = 5 -> 6065307
      [] j = 6 -> 5488116 [] j = 7 -> 4965853 [] j = 8 -> 4493290
      [] j = 9 -> 4065697

\* math.exp(x) for a float x <= 0 that is a multiple of 1/10: e^x rounded to
\* a float
Exp(x) ==
    LET t == RoundDiv(-x * 10, Scale)
        v == RoundDiv(ExpTabUnits(t \div 10), 1000) * RoundDiv(ExpTabTenths(t % 10), 1000)
    IN  RoundDiv(v, 100000000 \div Scale)

\* math.log(x) for the one argument the program passes, 0.2 (1 minus the
\* target_percentage 0.8): ln 0.2 rounded to a float
Log(x) == CASE x = Scale \div 5 -> -1609

----------------------------------------------------------------------------
(* Results of a call.                                                      *)

Ok(v) == [tag |-> "ok", val |-> v]
None == [tag |-> "None", val |-> <<>>]
Raise(e) == [tag |-> e, val |-> <<>>]

----------------------------------------------------------------------------
(* PricingModel: int fields, int hours                                     *)

\* PricingModel.__init__
PricingModel(tier1_rate, tier1_max, tier2_rate, tier2_max, tier3_rate) ==
    [class |-> "PricingModel", tier1_rate |-> tier1_rate, tier1_max |-> tier1_max,
     tier2_rate |-> tier2_rate, tier2_max |-> tier2_max, tier3_rate |-> tier3_rate]

\* graduated billing: each hour at the rate of the tier that hour falls in
Pricing_calculate_cost_marginal(self, hours) ==
    IF hours <= self.tier1_max THEN self.tier1_rate * hours
    ELSE IF hours <= self.tier2_max
         THEN self.tier1_rate * self.tier1_max + self.tier2_rate * (hours - self.tier1_max)
    ELSE self.tier1_rate * self.tier1_max
            + self.tier2_rate * (self.tier2_max - self.tier1_max)
            + self.tier3_rate * (hours - self.tier2_max)

Pricing_calculate_cost(self, hours) ==
    IF hours <= self.tier1_max THEN self.tier1_rate * hours
    ELSE IF hours <= self.tier2_max THEN self.tier2_rate * hours
    ELSE self.tier3_rate * hours

----------------------------------------------------------------------------
(* AdvertisingModel: int max_reach and cpm, float growth_rate              *)

\* AdvertisingModel.__init__
AdvertisingModel(max_reach, growth_rate, cpm) ==
    [class |-> "AdvertisingModel", max_reach |-> max_reach,
     growth_rate |-> growth_rate, cpm |-> cpm]

\* the decay e^(-growth_rate days) itself in place of 1 minus it
calculate_reach_decay(self, days) ==
    self.max_reach * Exp(-self.growth_rate * days)

\* days is an int
calculate_reach(self, days) ==
    self.max_reach * (FromInt(1) - Exp(-self.growth_rate * days))

\* reach is a float
Advertising_calculate_cost(self, reach) ==
    RoundDiv(reach, 1000) * self.cpm

\* The attributes a class defines besides its fields
Methods(class) ==
    CASE class = "PricingModel" -> {"calculate_cost"}
      [] class = "AdvertisingModel" -> {"calculate_reach", "calculate_cost"}
      [] class = "ProfitModel" ->
            {"calculate_expenses", "calculate_revenue", "calculate_profit",
             "calculate_break_even", "calculate_optimal_students"}
      [] class = "SeasonalityModel" ->
            {"calculate_enrollment", "generate_yearly_data", "find_peak_month"}

\* self.<name>(...): Python raises AttributeError when the class has no such
\* attribute, and otherwise the call yields `result`
CallMethod(self, name, result) ==
    IF name \in Methods(self.class) THEN result ELSE Raise("AttributeError")

\* show_advertising_model: target_percentage = 0.8 and days_to_target, which
\* the view computes itself from the growth-rate slider
target_percentage == (4 * Scale) \div 5

days_to_target(growth_rate) ==
    FDiv(-Log(FromInt(1) - target_percentage), growth_rate)

----------------------------------------------------------------------------
(* ProfitModel: int fixed_costs, variable_cost and avg_revenue_per_student, *)
(* float scaling_factor; students is a float                               *)

\* ProfitModel.__init__
ProfitModel(fixed_costs, variable_cost, scaling_factor, avg_revenue_per_student) ==
    [class |-> "ProfitModel", fixed_costs |-> fixed_costs,
     variable_cost |-> variable_cost, scaling_factor |-> scaling_factor,
     avg_revenue_per_student |-> avg_revenue_per_student]

calculate_expenses(self, students) ==
    FromInt(self.fixed_costs) + self.variable_cost * students
        + FMul(self.scaling_factor, FMul(students, students))

calculate_revenue(self, students) ==
    self.avg_revenue_per_student * students

calculate_profit(self, students) ==
    calculate_revenue(self, students) - calculate_expenses(self, students)

\* max(solutions) in place of min(solutions)
MaxOf(xs) == IF Len(xs) = 1 \/ xs[1] >= xs[2] THEN xs[1] ELSE xs[2]

\* min(solutions) of a non-empty list
RECURSIVE MinOf(_)
MinOf(xs) ==
    IF Len(xs) = 1 THEN xs[1]
    ELSE LET m == MinOf(Tail(xs))
         IN  IF m < xs[1] THEN m ELSE xs[1]

calculate_break_even(self) ==
    LET a == -self.scaling_factor
        b == self.avg_revenue_per_student - self.variable_cost
        c == -self.fixed_costs
        discriminant == FromInt(b * b) - 4 * a * c
        s1 == FDiv(FromInt(-b) + Sqrt(discriminant), 2 * a)
        s2 == FDiv(FromInt(-b) - Sqrt(discriminant), 2 * a)
        solutions == SelectSeq(<<s1, s2>>, LAMBDA s : s > 0)
    IN  IF discriminant < 0 THEN None
        ELSE IF 2 * a = 0 THEN Raise("ZeroDivisionError")
        ELSE IF solutions # <<>> THEN Ok(MinOf(solutions)) ELSE None

\* the vertex taken as b / a in place of b / (2 a)
calculate_optimal_students_no2(self) ==
    LET optimal == FDiv(FromInt(self.avg_revenue_per_student - self.variable_cost),
                        self.scaling_factor)
    IN  IF 2 * self.scaling_factor = 0 THEN Raise("ZeroDivisionError")
        ELSE Ok(IF 0 < optimal THEN optimal ELSE 0)

calculate_optimal_students(self) ==
    LET optimal == FDiv(FromInt(self.avg_revenue_per_student - self.variable_cost),
                        2 * self.scaling_factor)
    IN  IF 2 * self.scaling_factor = 0 THEN Raise("ZeroDivisionError")
        ELSE Ok(IF 0 < optimal THEN optimal ELSE 0)

----------------------------------------------------------------------------
(* SeasonalityModel: int fields, int month                                 *)

\* SeasonalityModel.__init__
SeasonalityModel(base_enrollment, amplitude1, amplitude2, phase1, phase2) ==
    [class |-> "SeasonalityModel", base_enrollment |-> base_enrollment,
     amplitude1 |-> amplitude1, amplitude2 |-> amplitude2,
     phase1 |-> phase1, phase2 |-> phase2]

\* a trend term added to the periodic ones
calculate_enrollment_trend(self, month) ==
    LET term1 == self.amplitude1 * Sin(RoundDiv(PI * (month + self.phase1), 6))
        term2 == self.amplitude2 * Cos(RoundDiv(PI * (month + self.phase2), 3))
    IN  FromInt(self.base_enrollment + month) + term1 + term2

calculate_enrollment(self, month) ==
    LET term1 == self.amplitude1 * Sin(RoundDiv(PI * (month + self.phase1), 6))
        term2 == self.amplitude2 * Cos(RoundDiv(PI * (month + self.phase2), 3))
    IN  FromInt(self.base_enrollment) + term1 + term2

\* np.arange(0, 12): months counted from 0
Months0 == [i \in 1..12 |-> i - 1]

\* np.arange(1, 13)
Months == [i \in 1..12 |-> i]

\* [self.calculate_enrollment(month) for month in months], from index i on
RECURSIVE EnrollmentsFrom(_, _, _)
EnrollmentsFrom(self, months, i) ==
    IF i > Len(months) THEN <<>>
    ELSE <<calculate_enrollment(self, months[i])>> \o EnrollmentsFrom(self, months, i + 1)

generate_yearly_data(self) ==
    LET months == Months
        enrollments == EnrollmentsFrom(self, months, 1)
    IN  <<months, enrollments>>

\* np.argmax: the index of the first largest element (indices from 1 here)
RECURSIVE ArgMaxFrom(_, _, _)
ArgMaxFrom(xs, i, best) ==
    IF i > Len(xs) THEN best
    ELSE ArgMaxFrom(xs, i + 1, IF xs[i] > xs[best] THEN i ELSE best)

\* the index of the last largest element
ArgMaxLast(xs) ==
    CHOOSE i \in 1..Len(xs) :
        /\ \A j \in 1..Len(xs) : xs[j] <= xs[i]
        /\ \A j \in (i + 1)..Len(xs) : xs[j] < xs[i]

ArgMax(xs) == ArgMaxFrom(xs, 2, 1)

find_peak_month(self) ==
    LET data == generate_yearly_data(self)
        months == data[1]
        enrollments == data[2]
        peak_idx == ArgMax(enrollments)
    IN  <<months[peak_idx], enrollments[peak_idx]>>

----------------------------------------------------------------------------
(* The profit page: show_profit_model and the plot it draws.               *)

\* a / b rounded to the nearest integer, ties to the even one, b > 0
RoundHalfEven(a, b) ==
    LET q == a \div b
        r == a % b
    IN  IF 2 * r > b \/ (2 * r = b /\ q % 2 = 1) THEN q + 1 ELSE q

\* f"{value:.0f}" and f"{value:,.2f}" of the result of a call: the number
\* shown, in units of 1/unit (unit = 1 or 100); None has no float format
Format(value, unit) ==
    IF value = None THEN Raise("TypeError")
    ELSE Ok(RoundHalfEven(value.val * unit, Scale))

\* `if break_even:` - None and 0 are false
Truthy(value) == value # None /\ value.val # 0

\* The slider values of the profit page
ProfitSliders(fixed_costs, variable_cost, scaling_factor, avg_revenue_per_student) ==
    [class |-> "show_profit_model", fixed_costs |-> fixed_costs,
     variable_cost |-> variable_cost, scaling_factor |-> scaling_factor,
     avg_revenue_per_student |-> avg_revenue_per_student]

\* create_quadratic_plot: the markers of the figure (the three curves over
\* students 1..200 are drawn from the same methods and are left out)
create_quadratic_plot(profit_model, current_students) ==
    LET current_profit == calculate_profit(profit_model, current_students)
        break_even == calculate_break_even(profit_model)
        optimal_students == calculate_optimal_students(profit_model)
    IN  IF break_even.tag \notin {"ok", "None"} THEN break_even
        ELSE IF optimal_students.tag # "ok" THEN optimal_students
        ELSE Ok([current |-> <<current_students, current_profit>>,
                 vline |-> IF Truthy(break_even) THEN <<break_even.val>> ELSE <<>>,
                 optimal |-> <<optimal_students.val,
                               calculate_profit(profit_model, optimal_students.val)>>])

\* show_profit_model for the slider values `sliders` and the int
\* current_students: what the page shows, or the exception that ends the run
show_profit_model(sliders, current_students) ==
    LET profit_model == ProfitModel(sliders.fixed_costs, sliders.variable_cost,
                                    sliders.scaling_factor,
                                    sliders.avg_revenue_per_student)
        students == FromInt(current_students)
        current_revenue == Format(Ok(calculate_revenue(profit_model, students)), 100)
        current_expenses == Format(Ok(calculate_expenses(profit_model, students)), 100)
        current_profit == Format(Ok(calculate_profit(profit_model, students)), 100)
        break_even == calculate_break_even(profit_model)
        break_even_metric == Format(break_even, 1)
        fig == create_quadratic_plot(profit_model, students)
        optimal_students == calculate_optimal_students(profit_model)
    IN  IF break_even.tag \notin {"ok", "None"} THEN break_even
        ELSE IF break_even_metric.tag # "ok" THEN break_even_metric
        ELSE IF fig.tag # "ok" THEN fig
        ELSE IF optimal_students.tag # "ok" THEN optimal_students
        ELSE Ok([revenue |-> current_revenue.val, expenses |-> current_expenses.val,
                 profit |-> current_profit.val, break_even |-> break_even_metric.val,
                 fig |-> fig.val,
                 optimal_students |-> Format(optimal_students, 1).val,
                 max_profit |->
                    Format(Ok(calculate_profit(profit_model, optimal_students.val)), 100).val])

----------------------------------------------------------------------------
(* The instances a caller builds and the arguments it passes.              *)

PricingInstances ==
    {PricingModel(r1, m1, 28, m2, r3) :
        r1 \in {20, 30}, m1 \in {3, 5, 8}, m2 \in {8, 10}, r3 \in {25}}

AdvertisingInstances ==
    {AdvertisingModel(mr, (k * Scale) \div 10, cpm) : mr \in {1000, 5000}, k \in {1, 5}, cpm \in {1, 5}}

ProfitInstances ==
    {ProfitModel(fc, vc, (sf * Scale) \div 2, rev) :
        fc \in 0..MaxFixed, vc \in {0, 1}, sf \in 0..MaxSf, rev \in 0..MaxRev}

SeasonalityInstances ==
    {SeasonalityModel(50, a[1], a[2], p1, p2) :
        a \in {<<20, 10>>, <<0, 10>>},
        p1 \in -MaxPhase..MaxPhase, p2 \in -MaxPhase..MaxPhase}

\* Slider positions of the profit page
ProfitPages ==
    {ProfitSliders(1000, 100, sf * Scale, rev) : sf \in {1, 2}, rev \in {100, 164, 165}}

Instances ==
    PricingInstances \cup AdvertisingInstances \cup ProfitInstances
        \cup SeasonalityInstances \cup ProfitPages

Hours == 1..MaxHours
Days == 0..MaxDays
Reaches == {FromInt(0), FromInt(1000), FromInt(2500)}
Fractions == {FromInt(0), target_percentage, FromInt(1)}
Students == {FromInt(s) : s \in 0..MaxStudents}
MonthArgs == 1..MaxMonth
CurrentStudents == {1, 20}

----------------------------------------------------------------------------
(* The state machine: one instance, queried any number of times.           *)

NoCall == [op |-> "", arg |-> <<>>, result |-> None]

Init ==
    /\ model \in Instances
    /\ built = model
    /\ last = NoCall
    /\ first = NoCall
    /\ between = FALSE

\* find_peak_month leaving its result in a field of self
SelfAfterStoring(self, op) ==
    IF op = "find_peak_month"
    THEN [self EXCEPT !.phase1 = find_peak_month(self)[1]]
    ELSE self

\* The instance after a call of method op: no method assigns to a field of self
SelfAfter(self, op) == self

\* One call self.op(arg) and what the caller observes of it
Query(op, arg, result) ==
    /\ last' = [op |-> op, arg |-> arg, result |-> result]
    /\ first' = IF first.op = "" THEN last' ELSE first
    /\ between' = (first.op # "" /\ (between \/ op # first.op \/ arg # first.arg))
    /\ model' = SelfAfter(model, op)
    /\ UNCHANGED built

PricingCalculateCost(hours) ==
    /\ model.class = "PricingModel"
    /\ Query("calculate_cost", <<hours>>,
             CallMethod(model, "calculate_cost", Ok(Pricing_calculate_cost(model, hours))))

AdvertisingCalculateReach(days) ==
    /\ model.class = "AdvertisingModel"
    /\ Query("calculate_reach", <<days>>,
             CallMethod(model, "calculate_reach", Ok(calculate_reach(model, days))))

AdvertisingCalculateCost(reach) ==
    /\ model.class = "AdvertisingModel"
    /\ Query("calculate_cost", <<reach>>,
             CallMethod(model, "calculate_cost", Ok(Advertising_calculate_cost(model, reach))))

\* A caller asking the model for the days to reach fraction p of max_reach
DaysToReachFraction(p) ==
    /\ model.class = "AdvertisingModel"
    /\ Query("days_to_reach_fraction", <<p>>,
             CallMethod(model, "days_to_reach_fraction", None))

\* show_advertising_model's "Days to reach 80% of max reach"
ShowAdvertisingModel ==
    /\ model.class = "AdvertisingModel"
    /\ Query("show_advertising_model", <<>>, Ok(days_to_target(model.growth_rate)))

CalculateExpenses(students) ==
    /\ model.class = "ProfitModel"
    /\ Query("calculate_expenses", <<students>>,
             CallMethod(model, "calculate_expenses", Ok(calculate_expenses(model, students))))

CalculateRevenue(students) ==
    /\ model.class = "ProfitModel"
    /\ Query("calculate_revenue", <<students>>,
             CallMethod(model, "calculate_revenue", Ok(calculate_revenue(model, students))))

CalculateProfit(students) ==
    /\ model.class = "ProfitModel"
    /\ Query("calculate_profit", <<students>>,
             CallMethod(model, "calculate_profit", Ok(calculate_profit(model, students))))

CalculateBreakEven ==
    /\ model.class = "ProfitModel"
    /\ Query("calculate_break_even", <<>>,
             CallMethod(model, "calculate_break_even", calculate_break_even(model)))

CalculateOptimalStudents ==
    /\ model.class = "ProfitModel"
    /\ Query("calculate_optimal_students", <<>>,
             CallMethod(model, "calculate_optimal_students", calculate_optimal_students(model)))

CalculateEnrollment(month) ==
    /\ model.class = "SeasonalityModel"
    /\ Query("calculate_enrollment", <<month>>,
             CallMethod(model, "calculate_enrollment", Ok(calculate_enrollment(model, month))))

GenerateYearlyData ==
    /\ model.class = "SeasonalityModel"
    /\ Query("generate_yearly_data", <<>>,
             CallMethod(model, "generate_yearly_data", Ok(generate_yearly_data(model))))

FindPeakMonth ==
    /\ model.class = "SeasonalityModel"
    /\ Query("find_peak_month", <<>>,
             CallMethod(model, "find_peak_month", Ok(find_peak_month(model))))

\* One run of the profit page
ShowProfitModel(current_students) ==
    /\ model.class = "show_profit_model"
    /\ Query("show_profit_model", <<current_students>>,
             show_profit_model(model, current_students))

Next ==
    \/ \E hours \in Hours : PricingCalculateCost(hours)
    \/ \E days \in Days : AdvertisingCalculateReach(days)
    \/ \E reach \in Reaches : AdvertisingCalculateCost(reach)
    \/ \E p \in Fractions : DaysToReachFraction(p)
    \/ ShowAdvertisingModel
    \/ \E students \in Students : CalculateExpenses(students)
    \/ \E students \in Students : CalculateRevenue(students)
    \/ \E students \in Students : CalculateProfit(students)
    \/ CalculateBreakEven
    \/ CalculateOptimalStudents
    \/ \E month \in MonthArgs : CalculateEnrollment(month)
    \/ GenerateYearlyData
    \/ FindPeakMonth
    \/ \E current_students \in CurrentStudents : ShowProfitModel(current_students)

Spec == Init /\ [][Next]_vars

----------------------------------------------------------------------------
(* Properties.                                                             *)

IsPricing == built.class = "PricingModel"
IsAdvertising == built.class = "AdvertisingModel"
IsProfit == built.class = "ProfitModel"
IsSeasonality == built.class = "SeasonalityModel"

\* C1: PricingModel.calculate_cost bills the whole quantity at the rate of
\* the tier the hours fall in; a boundary belongs to the lower tier.
C1_TierRate ==
    (IsPricing /\ last.op = "calculate_cost") =>
        LET h == last.arg[1]
        IN  /\ (0 < h /\ h <= built.tier1_max) => last.result = Ok(built.tier1_rate * h)
            /\ (built.tier1_max < h /\ h <= built.tier2_max)
                    => last.result = Ok(built.tier2_rate * h)
            /\ h > built.tier2_max => last.result = Ok(built.tier3_rate * h)

\* C1 witness: a call exactly at the upper boundary of a non-empty second
\* tier, billed wholly at the second rate, which differs from the first.
C1_Witness ==
    /\ IsPricing /\ last.op = "calculate_cost"
    /\ built.tier1_max < built.tier2_max /\ last.arg[1] = built.tier2_max
    /\ built.tier1_rate # built.tier2_rate
    /\ last.result = Ok(built.tier2_rate * built.tier2_max)

\* |profit(v)| allowed at a computed root v: 0.05
ProfitTolerance == Scale \div 20

\* Student counts on the half-unit grid, which profit evaluates exactly
HalfGrid == {(k * Scale) \div 2 : k \in 1..(4 * MaxRev)}

\* C2: whenever calculate_break_even returns a value v (scaling_factor > 0),
\* v > 0, profit(v) is 0 within tolerance, no root of profit lies in (0, v)
\* (profit is still negative there when fixed_costs > 0), and with
\* fixed_costs = 0 (the other root is 0) v is the one positive root
\* (avg_revenue_per_student - variable_cost) / scaling_factor.
C2_BreakEvenSmallerPositiveRoot ==
    (IsProfit /\ last.op = "calculate_break_even" /\ last.result.tag = "ok") =>
        LET v == last.result.val
        IN  /\ built.scaling_factor > 0
            /\ v > 0
            /\ Abs(calculate_profit(built, v)) <= ProfitTolerance
            /\ \A r \in HalfGrid : r < v =>
                  /\ calculate_profit(built, r) # 0
                  /\ built.fixed_costs > 0 => calculate_profit(built, r) < 0
            /\ built.fixed_costs = 0 =>
                  v = FDiv(FromInt(built.avg_revenue_per_student - built.variable_cost),
                           built.scaling_factor)

\* C2 witness: a value was returned while a second, larger root exists.
C2_Witness ==
    /\ IsProfit /\ last.op = "calculate_break_even" /\ last.result.tag = "ok"
    /\ \E r \in HalfGrid : r > last.result.val /\ calculate_profit(built, r) = 0

\* C3 (as claimed): with scaling_factor = 0 neither query raises; break-even
\* is the linear root fixed_costs / slope when the slope is positive and no
\* solution when the slope is 0, and optimal-students is 0 when slope <= 0.
C3_ScalingZeroSpecialCased ==
    (IsProfit /\ built.scaling_factor = 0) =>
        LET slope == built.avg_revenue_per_student - built.variable_cost
        IN  /\ last.op = "calculate_break_even" =>
                /\ last.result.tag # "ZeroDivisionError"
                /\ (slope > 0 /\ built.fixed_costs > 0) =>
                      last.result = Ok(FDiv(FromInt(built.fixed_costs), FromInt(slope)))
                /\ slope = 0 => last.result = None
            /\ last.op = "calculate_optimal_students" =>
                /\ last.result.tag = "ok"
                /\ slope <= 0 => last.result = Ok(0)

\* The vertex (avg_revenue_per_student - variable_cost) / (2 scaling_factor),
\* clamped to >= 0
Vertex ==
    LET x == FDiv(FromInt(built.avg_revenue_per_student - built.variable_cost),
                  2 * built.scaling_factor)
    IN  IF x > 0 THEN x ELSE 0

\* The student counts the optimum is compared with: the whole counts
\* 0..MaxSample and the floats next to the optimum
Samples(opt) ==
    {FromInt(n) : n \in 0..MaxSample} \cup {x \in (opt - 20)..(opt + 20) : x >= 0}

\* profit(optimum) may fall short of profit(s) by rounding: 0.005
OptimumTolerance == Scale \div 200

\* C4 (as claimed): for scaling_factor > 0 calculate_optimal_students returns
\* the clamped vertex, and profit there is >= profit(s) for every s >= 0.
C4_OptimalIsExactMaximum ==
    (IsProfit /\ last.op = "calculate_optimal_students" /\ built.scaling_factor > 0) =>
        /\ last.result = Ok(Vertex)
        /\ \A s \in Samples(Vertex) :
              calculate_profit(built, Vertex) >= calculate_profit(built, s)

\* C4 (amended): for scaling_factor > 0 calculate_optimal_students returns
\* the clamped vertex, and profit there is >= profit(s) for every s >= 0 up to
\* the rounding of the floating-point evaluation.
C4_OptimalIsMaximumWithinRounding ==
    (IsProfit /\ last.op = "calculate_optimal_students" /\ built.scaling_factor > 0) =>
        /\ last.result = Ok(Vertex)
        /\ \A s \in Samples(Vertex) :
              calculate_profit(built, Vertex)
                  >= calculate_profit(built, s) - OptimumTolerance

\* C4 witness: an interior optimum (vertex > 0) was returned, and profit at a
\* whole student count is strictly smaller.
C4_Witness ==
    /\ IsProfit /\ last.op = "calculate_optimal_students" /\ built.scaling_factor > 0
    /\ last.result.tag = "ok" /\ last.result.val > 0
    /\ \E n \in 0..MaxSample :
          calculate_profit(built, FromInt(n)) < calculate_profit(built, last.result.val)

\* profit(s) = 0 has a positive real root: profit(0) = -fixed_costs <= 0 and
\* profit is a downward parabola, so it has one exactly when profit >= 0
\* somewhere at s > 0, and then also at its vertex b / (2 scaling_factor)
\* (b / scaling_factor when fixed_costs = 0); these lie on the grid below.
RootGrid ==
    {FDiv(FromInt(n), FromInt(d)) : n \in 1..(4 * MaxRev), d \in 1..(MaxSf + 1)}

\* The discriminant b^2 - 4ac of a = -scaling_factor,
\* b = avg_revenue_per_student - variable_cost, c = -fixed_costs
Discriminant ==
    FromInt((built.avg_revenue_per_student - built.variable_cost)
                * (built.avg_revenue_per_student - built.variable_cost))
        - 4 * built.scaling_factor * built.fixed_costs

\* The discriminant is negative, or it is >= 0 and the larger root
\* (b + sqrt(D)) / (2 scaling_factor), hence both, is <= 0
NoPositiveRoot ==
    \/ Discriminant < 0
    \/ /\ Discriminant >= 0
       /\ FromInt(built.avg_revenue_per_student - built.variable_cost)
              + Sqrt(Discriminant) <= 0

\* C5 (as claimed): calculate_break_even returns None, and no error, exactly
\* when profit(s) = 0 has no positive real root: for scaling_factor > 0 when
\* the discriminant is negative, or it is >= 0 and both roots are <= 0; for
\* scaling_factor = 0 (profit linear) at least when the slope is <= 0 and
\* fixed_costs > 0, where profit is negative at every s >= 0.
C5_NoneIffNoPositiveRoot ==
    (IsProfit /\ last.op = "calculate_break_even") =>
        /\ last.result.tag \in {"ok", "None"}
        /\ built.scaling_factor > 0 => (last.result = None <=> NoPositiveRoot)
        /\ (/\ built.scaling_factor = 0
            /\ built.avg_revenue_per_student - built.variable_cost <= 0
            /\ built.fixed_costs > 0) => last.result = None

\* C5 failing case: scaling_factor = 0, slope <= 0 and fixed_costs > 0, so
\* profit has no root at all, and the call raises ZeroDivisionError.
C5_Witness ==
    /\ IsProfit /\ last.op = "calculate_break_even"
    /\ built.scaling_factor = 0 /\ built.fixed_costs > 0
    /\ built.avg_revenue_per_student - built.variable_cost <= 0
    /\ \A s \in RootGrid \cup {0} : calculate_profit(built, s) < 0
    /\ last.result = Raise("ZeroDivisionError")

\* C5 restricted to scaling_factor > 0: calculate_break_even returns None,
\* and no error, exactly when the discriminant is negative or it is >= 0 and
\* both roots are <= 0; and that is exactly when profit stays below 0 at every
\* sampled s > 0.
C5_PositiveScaling ==
    (IsProfit /\ last.op = "calculate_break_even" /\ built.scaling_factor > 0) =>
        /\ last.result.tag \in {"ok", "None"}
        /\ last.result = None <=> NoPositiveRoot
        /\ last.result = None <=>
              \A s \in RootGrid : calculate_profit(built, s) < 0

\* C5 restricted, first case: None returned with a discriminant >= 0 (both
\* roots <= 0).
C5_PositiveScalingBothNonPositive ==
    /\ IsProfit /\ last.op = "calculate_break_even" /\ built.scaling_factor > 0
    /\ last.result = None
    /\ Discriminant >= 0

\* C5 restricted, second case: None returned with a negative discriminant.
C5_PositiveScalingNegativeDiscriminant ==
    /\ IsProfit /\ last.op = "calculate_break_even" /\ built.scaling_factor > 0
    /\ last.result = None
    /\ Discriminant < 0

\* C6 (as claimed): a caller can ask the AdvertisingModel for
\* days_to_reach_fraction(p); the call does not raise, and for p = 0.8 it
\* yields the -ln(1 - p) / growth_rate that show_advertising_model displays.
C6_DaysToReachFractionExposed ==
    (IsAdvertising /\ last.op = "days_to_reach_fraction") =>
        /\ last.result.tag = "ok"
        /\ last.arg[1] = target_percentage =>
              last.result.val = days_to_target(built.growth_rate)

\* C7: find_peak_month returns (m, e) with m one of the months 1..12,
\* e = calculate_enrollment(m), e the maximum of the yearly enrollments, and m
\* the smallest month whose enrollment is e.
C7_FindPeakMonth ==
    (IsSeasonality /\ last.op = "find_peak_month") =>
        LET m == last.result.val[1]
            e == last.result.val[2]
            enrollments == generate_yearly_data(built)[2]
        IN  /\ last.result.tag = "ok"
            /\ m \in 1..12
            /\ e = calculate_enrollment(built, m)
            /\ \A i \in 1..12 : enrollments[i] <= e
            /\ \A i \in 1..12 : calculate_enrollment(built, i) = e => m <= i

\* C7 witness: a peak was returned while a later month has the same
\* enrollment and another month a smaller one.
C7_Witness ==
    /\ IsSeasonality /\ last.op = "find_peak_month"
    /\ \E i \in 1..12 : calculate_enrollment(built, i) < last.result.val[2]
    /\ \E i \in 1..12 :
          /\ i > last.result.val[1]
          /\ calculate_enrollment(built, i) = last.result.val[2]

\* C8: generate_yearly_data returns two sequences of length 12, the months
\* 1, 2, ..., 12 in this order and, at each index, the enrollment of that
\* month.
C8_YearlyData ==
    (IsSeasonality /\ last.op = "generate_yearly_data") =>
        LET months == last.result.val[1]
            enrollments == last.result.val[2]
        IN  /\ last.result.tag = "ok"
            /\ Len(months) = 12 /\ Len(enrollments) = 12
            /\ \A i \in 1..12 :
                  /\ months[i] = i
                  /\ enrollments[i] = calculate_enrollment(built, i)

\* C8 witness: yearly data returned by an instance whose enrollment varies
\* over the year.
C8_Witness ==
    /\ IsSeasonality /\ last.op = "generate_yearly_data"
    /\ last.result.val[2][1] # last.result.val[2][12]

\* C9: no query changes a parameter field, and a query repeated with the
\* same argument returns what it returned the first time, whatever ran in
\* between.
C9_NoQueryMutates ==
    /\ model = built
    /\ (first.op # "" /\ last.op = first.op /\ last.arg = first.arg) =>
          last.result = first.result

\* C9 witness: the first query is repeated after a different query ran.
C9_Witness ==
    /\ between /\ last.op = first.op /\ last.arg = first.arg

\* |enrollment(t) - enrollment(t + 12)| allowed per unit of amplitude: 0.004
PeriodTolerance(self) == 4 * (Abs(self.amplitude1) + Abs(self.amplitude2))

\* C10 (as claimed): calculate_enrollment(t) == calculate_enrollment(t + 12).
C10_ExactPeriod12 ==
    (IsSeasonality /\ last.op = "calculate_enrollment") =>
        last.result = Ok(calculate_enrollment(built, last.arg[1] + 12))

\* C10 (amended): calculate_enrollment(t) and calculate_enrollment(t + 12)
\* agree up to the rounding of the floating-point evaluation.
C10_Period12WithinRounding ==
    (IsSeasonality /\ last.op = "calculate_enrollment") =>
        /\ last.result.tag = "ok"
        /\ Abs(last.result.val - calculate_enrollment(built, last.arg[1] + 12))
              <= PeriodTolerance(built)

\* C10 witness: an enrollment that differs from the one a quarter later and
\* is within the tolerance of the one 12 months later.
C10_Witness ==
    /\ IsSeasonality /\ last.op = "calculate_enrollment"
    /\ last.result.val # calculate_enrollment(built, last.arg[1] + 3)
    /\ Abs(last.result.val - calculate_enrollment(built, last.arg[1] + 12))
          <= PeriodTolerance(built)

\* growth_rate * days up to which the float 1 - e^(-growth_rate days) is
\* still told apart from its neighbours and from 1: 3
ResolvedLimit == 3 * Scale

PageModel ==
    ProfitModel(built.fixed_costs, built.variable_cost, built.scaling_factor,
                built.avg_revenue_per_student)

\* C12 (as claimed): for slider values of the profit page, show_profit_model
\* ends without an exception, also when calculate_break_even returns None,
\* and shows a break-even exactly when create_quadratic_plot draws its
\* break-even line.
C12_ShowProfitModelGuardsNone ==
    (built.class = "show_profit_model" /\ last.op = "show_profit_model") =>
        /\ last.result.tag = "ok"
        /\ calculate_break_even(PageModel) = None =>
              last.result.val.fig.vline = <<>>

\* C12 failing case: the sliders give a negative discriminant,
\* calculate_break_even returns None and the run ends with TypeError.
C12_Witness ==
    /\ built.class = "show_profit_model" /\ last.op = "show_profit_model"
    /\ calculate_break_even(PageModel) = None
    /\ last.result = Raise("TypeError")

\* C12, the other case: with a break-even value the page is shown, with the
\* value rounded to a whole number and the plot's break-even line at it.
C12_ShownWithBreakEven ==
    (built.class = "show_profit_model" /\ last.op = "show_profit_model"
        /\ calculate_break_even(PageModel).tag = "ok") =>
        /\ last.result.tag = "ok"
        /\ last.result.val.fig.vline = <<calculate_break_even(PageModel).val>>
        /\ Abs(last.result.val.break_even * Scale - calculate_break_even(PageModel).val)
              <= Scale \div 2

\* C12, the other case reached: a page shown with a break-even that is not
\* a whole number.
C12_ShownWithBreakEvenReached ==
    /\ built.class = "show_profit_model" /\ last.op = "show_profit_model"
    /\ last.result.tag = "ok"
    /\ last.result.val.break_even * Scale # calculate_break_even(PageModel).val

====
